---------------------------- MODULE Spec2Model ----------------------------
(***************************************************************************)
(* Model of the QKD protocol simulation engine of synapse-qnet:            *)
(*   src/synapse-qnet/src/protocols/bb84.py  (BB84Protocol)                *)
(*   src/synapse-qnet/src/protocols/e91.py   (E91Protocol)                 *)
(* One protocol instance is constructed from a configuration and           *)
(* run_protocol is called on it, possibly several times.  Every call of    *)
(* the module-global random generator is a nondeterministic choice among   *)
(* the outcomes the call can produce under the configuration.              *)
(* Floating point values are modelled as exact rationals <<num, den>>.     *)
(***************************************************************************)
EXTENDS Integers, Sequences, FiniteSets, TLC

(***************************************************************************)
(* Bounds of the model.                                                    *)
(***************************************************************************)
\* largest number of events (pulses or pairs) a configuration generates per run
MaxEvents == 2
\* largest number of run_protocol calls on one instance
MaxRuns == 2

(***************************************************************************)
(* Rational arithmetic (the floats of the source).                         *)
(***************************************************************************)
RECURSIVE GCD(_, _)
GCD(a, b) == IF b = 0 THEN a ELSE GCD(b, a % b)

Abs(x) == IF x < 0 THEN -x ELSE x

\* canonical form: positive denominator, lowest terms
Norm(r) ==
    LET s == IF r[2] < 0 THEN -1 ELSE 1
        g == GCD(Abs(r[1]), Abs(r[2]))
    IN  <<(s * r[1]) \div g, (s * r[2]) \div g>>

Rat(n) == <<n, 1>>
RMul(a, b) == Norm(<<a[1] * b[1], a[2] * b[2]>>)
RDiv(a, b) == Norm(<<a[1] * b[2], a[2] * b[1]>>)
RAdd(a, b) == Norm(<<a[1] * b[2] + b[1] * a[2], a[2] * b[2]>>)
RSub(a, b) == Norm(<<a[1] * b[2] - b[1] * a[2], a[2] * b[2]>>)
RLt(a, b) == a[1] * b[2] < b[1] * a[2]
RLe(a, b) == a[1] * b[2] <= b[1] * a[2]
RMin(a, b) == IF RLe(a, b) THEN a ELSE b
RMax(a, b) == IF RLe(a, b) THEN b ELSE a
RAbs(a) == <<Abs(a[1]), a[2]>>

\* Python int(x): truncation toward zero
PyInt(r) == IF r[1] >= 0 THEN r[1] \div r[2] ELSE -((-r[1]) \div r[2])

\* Python max(0, n) on integers
Max0(n) == IF n < 0 THEN 0 ELSE n

\* 10 ** x for the integral exponents the configurations produce
RECURSIVE Pow10(_)
Pow10(x) ==
    IF x = 0 THEN Rat(1)
    ELSE IF x > 0 THEN RMul(Rat(10), Pow10(x - 1))
    ELSE RMul(<<1, 10>>, Pow10(x + 1))

\* variant: the last elements kept instead of the first (seq[-n:], n > 0)
PySliceTail(s, n) ==
    LET k == IF n < 0 THEN Max0(Len(s) + n) ELSE IF n > Len(s) THEN Len(s) ELSE n
    IN  SubSeq(s, Len(s) - k + 1, Len(s))

\* Python seq[:n] for a list: n beyond the length keeps the whole list,
\* a negative n counts from the end
PySlice(s, n) ==
    LET k == IF n < 0 THEN Max0(Len(s) + n) ELSE IF n > Len(s) THEN Len(s) ELSE n
    IN  SubSeq(s, 1, k)

\* the sequences that take their i-th element from the i-th set of ss
RECURSIVE Product(_)
Product(ss) ==
    IF ss = <<>> THEN {<<>>}
    ELSE {<<x>> \o rest : x \in Head(ss), rest \in Product(Tail(ss))}

(***************************************************************************)
(* The random generator.  random.random() is uniform on [0, 1): the test   *)
(* random.random() < p can succeed iff p > 0 and can fail iff p < 1; the   *)
(* test random.random() > p can succeed iff p < 1 and can fail iff p >= 0. *)
(***************************************************************************)
RandomLess(p) == {b \in BOOLEAN : (b => RLt(Rat(0), p)) /\ (~b => RLt(p, Rat(1)))}
RandomGreater(p) == {b \in BOOLEAN : (b => RLt(p, Rat(1))) /\ (~b => RLe(Rat(0), p))}


(***************************************************************************)
(* BB84: enumerations and configuration (bb84.py, lines 12-69).            *)
(***************************************************************************)
Basis == {"RECTILINEAR", "DIAGONAL"}
Bit == {"ZERO", "ONE"}
\* Optional[Bit]: the absent bit of a Detection that detected nothing
None == "None"

\* BB84Parameters with its default values
BB84Parameters ==
    [pulse_rate_hz |-> Rat(1000000000),
     duration_seconds |-> Rat(1),
     basis_choice_prob |-> <<1, 2>>,
     decoy_state_prob |-> <<1, 2>>,
     weak_intensity |-> <<1, 5>>,
     decoy_intensity |-> <<1, 10>>,
     error_correction_efficiency |-> <<6, 5>>,
     privacy_amplification_factor |-> Rat(2),
     qber_threshold |-> <<11, 100>>]

\* ChannelParameters (bb84.py) with its default values
BB84ChannelParameters ==
    [loss_db_per_km |-> <<1, 5>>,
     distance_km |-> Rat(50),
     depolarization_rate |-> <<1, 1000>>,
     detector_efficiency |-> <<4, 5>>,
     dark_count_rate |-> <<1, 1000000>>,
     timing_jitter_ns |-> Rat(100)]

\* The configurations explored: the defaults with the overrides a caller
\* passes to the two dataclasses, each generating n pulses per run.
BB84Scenarios(n) ==
    LET P == [BB84Parameters EXCEPT !.pulse_rate_hz = Rat(n)]
        C == BB84ChannelParameters
    IN
    { \* lossy, noiseless channel, signal states only
      [name |-> "noiseless",
       params |-> [P EXCEPT !.decoy_state_prob = Rat(0)],
       channel |-> [C EXCEPT !.depolarization_rate = Rat(0), !.dark_count_rate = Rat(0)]],
      \* lossless depolarizing channel, both sides always in the rectilinear basis
      [name |-> "depolarizing",
       params |-> [P EXCEPT !.basis_choice_prob = Rat(1), !.decoy_state_prob = Rat(0)],
       channel |-> [C EXCEPT !.distance_km = Rat(0), !.detector_efficiency = Rat(1),
                             !.depolarization_rate = <<1, 2>>, !.dark_count_rate = Rat(0)]],
      \* the same channel with qber_threshold = 1.0
      [name |-> "threshold_one",
       params |-> [P EXCEPT !.basis_choice_prob = Rat(1), !.decoy_state_prob = Rat(0),
                            !.qber_threshold = Rat(1)],
       channel |-> [C EXCEPT !.distance_km = Rat(0), !.detector_efficiency = Rat(1),
                             !.depolarization_rate = <<1, 2>>, !.dark_count_rate = Rat(0)]],
      \* decoy states on a lossless noiseless channel
      [name |-> "decoy",
       params |-> [P EXCEPT !.basis_choice_prob = Rat(1)],
       channel |-> [C EXCEPT !.distance_km = Rat(0), !.detector_efficiency = Rat(1),
                             !.depolarization_rate = Rat(0), !.dark_count_rate = Rat(0)]],
      \* decoy states with weak_intensity = 1.0
      [name |-> "bright_weak",
       params |-> [P EXCEPT !.basis_choice_prob = Rat(1), !.weak_intensity = Rat(1)],
       channel |-> [C EXCEPT !.distance_km = Rat(0), !.detector_efficiency = Rat(1),
                             !.depolarization_rate = Rat(0), !.dark_count_rate = Rat(0)]],
      \* a dead detector (efficiency 0): every detection is a dark count
      [name |-> "dark_counts",
       params |-> [P EXCEPT !.basis_choice_prob = Rat(1), !.decoy_state_prob = Rat(0)],
       channel |-> [C EXCEPT !.detector_efficiency = Rat(0), !.depolarization_rate = Rat(0)]],
      \* invalid ranges: a negative distance, a probability above 1
      [name |-> "invalid",
       params |-> [P EXCEPT !.basis_choice_prob = <<3, 2>>, !.decoy_state_prob = Rat(0)],
       channel |-> [C EXCEPT !.distance_km = Rat(-50), !.depolarization_rate = Rat(0),
                             !.dark_count_rate = Rat(0)]] }

BB84Configs == UNION {BB84Scenarios(n) : n \in 0..MaxEvents}

(***************************************************************************)
(* State.                                                                  *)
(***************************************************************************)
VARIABLES
    variant,   \* "bb84" (BB84Protocol) or "e91" (E91Protocol)
    scenario,  \* name of the configuration the instance was built from
    params,    \* self.params
    channel,   \* self.channel
    self,      \* the other attributes of the protocol instance
    loc,       \* the local variables of the running run_protocol call
    pc,        \* position of the call: the next step it executes
    trace,     \* the steps the current call has executed, in order
    draws,     \* the outcomes of the random draws of the current call
    result,    \* what the last call returned (or that it raised)
    prev,      \* draws, result and events of the call before on this instance
    runs       \* number of run_protocol calls started on the instance

vars == <<variant, scenario, params, channel, self, loc, pc, trace, draws, result, prev, runs>>

\* no metrics dict
NoMetrics == [absent |-> TRUE]

\* no call has returned yet
NoResult ==
    [state |-> "none", keys |-> {}, success |-> FALSE, error |-> "",
     final_key_bits |-> 0, metrics |-> NoMetrics, bell_parameter |-> Rat(0),
     efficiency |-> Rat(0), key_rate_bps |-> Rat(0)]

\* the dict a call returns: keys are the keys present in it
Returned(fields) ==
    [f \in DOMAIN NoResult |->
        IF f = "state" THEN "returned"
        ELSE IF f = "keys" THEN DOMAIN fields
        ELSE IF f \in DOMAIN fields THEN fields[f]
        ELSE NoResult[f]]

\* the call ended by raising the named exception
Raised(exc) == [NoResult EXCEPT !.state = "raised", !.error = exc]

(***************************************************************************)
(* BB84Protocol (bb84.py, lines 71-331).                                   *)
(***************************************************************************)
\* _calculate_transmission
BB84CalculateTransmission(ch) ==
    LET exponent == RDiv(RMul(RMul(Rat(-1), ch.loss_db_per_km), ch.distance_km), Rat(10))
        loss_linear == Pow10(PyInt(exponent))
    IN  RMul(loss_linear, ch.detector_efficiency)

\* __init__
BB84New(c) ==
    [alice_bits |-> <<>>, alice_bases |-> <<>>, alice_intensities |-> <<>>,
     bob_measurements |-> <<>>, sifted_key |-> <<>>, error_rate |-> Rat(0),
     final_key |-> <<>>, transmission_prob |-> BB84CalculateTransmission(c.channel)]

\* the locals of run_protocol before its first statement
BB84Locals ==
    [photons |-> <<>>, received_photons |-> <<>>, detections |-> <<>>,
     alice_sifted |-> <<>>, bob_sifted |-> <<>>, qber |-> Rat(0),
     security_metrics |-> NoMetrics, alice_corrected |-> <<>>, bob_corrected |-> <<>>,
     final_key |-> <<>>]

\* _generate_random_basis
GenerateRandomBasis(p) ==
    {IF b THEN "RECTILINEAR" ELSE "DIAGONAL" : b \in RandomLess(p.basis_choice_prob)}

\* _generate_random_bit
GenerateRandomBit == {IF b THEN "ZERO" ELSE "ONE" : b \in RandomLess(<<1, 2>>)}

\* _choose_intensity: the (intensity, is_decoy) pairs one draw rand can give
ChooseIntensity(p) ==
    LET dsp == p.decoy_state_prob
        half == RDiv(dsp, Rat(2))
    IN  \* rand < half
        (IF RLt(Rat(0), half) THEN {<<p.decoy_intensity, TRUE>>} ELSE {})
        \* half <= rand < dsp
        \cup (IF RLt(half, dsp) /\ RLt(half, Rat(1)) THEN {<<p.weak_intensity, TRUE>>} ELSE {})
        \* rand >= half and rand >= dsp
        \cup (IF RLt(half, Rat(1)) /\ RLt(dsp, Rat(1)) THEN {<<Rat(1), FALSE>>} ELSE {})

\* Photon
Photon(bit, basis, is_decoy, intensity) ==
    [bit |-> bit, basis |-> basis, is_decoy |-> is_decoy, intensity |-> intensity]

\* Detection
Detection(bit, basis, detected, dark_count, timestamp) ==
    [bit |-> bit, basis |-> basis, detected |-> detected, dark_count |-> dark_count,
     timestamp |-> timestamp]

\* int(pulse_rate_hz * duration_seconds); range() of a negative count is empty
NumPulses(p) == Max0(PyInt(RMul(p.pulse_rate_hz, p.duration_seconds)))


\* the binary-entropy penalty of security_analysis,
\*   max(0, 1 - efficiency * h2(x) - h2(x)),  h2(x) = 0 unless 0 < x < 1.
\* For 1/10 <= x <= 9/10, h2(x) >= 0.469, so with efficiency >= 1.2 the
\* penalty exceeds 1 and the fraction is 0.  No other case arises within
\* the bounds of the model.
SecureFraction(efficiency, x) ==
    CASE ~(RLt(Rat(0), x) /\ RLt(x, Rat(1))) -> Rat(1)
      [] RLe(<<1, 10>>, x) /\ RLe(x, <<9, 10>>) /\ RLe(<<6, 5>>, efficiency) -> Rat(0)

\* variant: the rate computed as a percentage
BB84ErrorEstimationPercent(alice_sifted, bob_sifted, error_rate) ==
    IF Len(alice_sifted) # Len(bob_sifted) \/ Len(alice_sifted) = 0
    THEN <<Rat(1), error_rate>>
    ELSE LET errors == Cardinality({i \in 1..Len(alice_sifted) : alice_sifted[i] # bob_sifted[i]})
             rate == Norm(<<100 * errors, Len(alice_sifted)>>)
         IN  <<rate, rate>>

\* variant: the agreeing positions counted instead of the differing ones
BB84ErrorEstimationAgreements(alice_sifted, bob_sifted, error_rate) ==
    IF Len(alice_sifted) # Len(bob_sifted) \/ Len(alice_sifted) = 0
    THEN <<Rat(1), error_rate>>
    ELSE LET errors == Cardinality({i \in 1..Len(alice_sifted) : alice_sifted[i] = bob_sifted[i]})
             rate == Norm(<<errors, Len(alice_sifted)>>)
         IN  <<rate, rate>>

\* error_estimation: <<returned QBER, self.error_rate afterwards>>
BB84ErrorEstimation(alice_sifted, bob_sifted, error_rate) ==
    IF Len(alice_sifted) # Len(bob_sifted) \/ Len(alice_sifted) = 0
    THEN <<Rat(1), error_rate>>
    ELSE LET errors == Cardinality({i \in 1..Len(alice_sifted) : alice_sifted[i] # bob_sifted[i]})
             rate == Norm(<<errors, Len(alice_sifted)>>)
         IN  <<rate, rate>>

\* variant: the comparison taken as non-strict
BB84SecureNonStrict(error_rate, qber_threshold) == RLe(error_rate, qber_threshold)

\* the comparison of security_analysis
BB84Secure(error_rate, qber_threshold) == RLt(error_rate, qber_threshold)

\* security_analysis
BB84SecurityAnalysis(s, p, ch) ==
    LET secure == BB84Secure(s.error_rate, p.qber_threshold)
        raw == RDiv(Rat(Len(s.sifted_key)), p.duration_seconds)
    IN  [qber |-> s.error_rate,
         secure |-> secure,
         estimated_eve_information |->
             IF RLt(Rat(0), s.error_rate) THEN RMin(Rat(1), RMul(Rat(2), s.error_rate)) ELSE Rat(0),
         transmission_distance_km |-> ch.distance_km,
         raw_key_rate_bps |-> raw,
         secure_key_rate_bps |->
             IF secure
             THEN RMul(raw, SecureFraction(p.error_correction_efficiency, s.error_rate))
             ELSE Rat(0)]

\* error_correction: <<corrected_alice, corrected_bob>>
BB84ErrorCorrection(alice_key, bob_key, error_rate, p) ==
    IF Len(alice_key) # Len(bob_key) THEN <<alice_key, bob_key>>
    ELSE LET info_leaked ==
                 PyInt(RMul(RMul(p.error_correction_efficiency, Rat(Len(alice_key))), error_rate))
             key_length == Max0(Len(alice_key) - info_leaked)
         IN  <<PySlice(alice_key, key_length), PySlice(bob_key, key_length)>>

\* variant: privacy_amplification_factor left out of the estimate
BB84PrivacyAmplificationNoFactor(key, error_rate, p, final_key) ==
    IF Len(key) = 0 THEN <<(<<>>), final_key>>
    ELSE LET amount == PyInt(RMul(Rat(Len(key)), error_rate))
             eve_info == IF Len(key) < amount THEN Len(key) ELSE amount
             final_length == Max0(Len(key) - eve_info)
             out == PySlice(key, final_length)
         IN  <<out, out>>

\* privacy_amplification: <<returned key, self.final_key afterwards>>
BB84PrivacyAmplification(key, error_rate, p, final_key) ==
    IF Len(key) = 0 THEN <<(<<>>), final_key>>
    ELSE LET amount == PyInt(RMul(RMul(Rat(Len(key)), error_rate), p.privacy_amplification_factor))
             eve_info == IF Len(key) < amount THEN Len(key) ELSE amount
             final_length == Max0(Len(key) - eve_info)
             out == PySlice(key, final_length)
         IN  <<out, out>>

\* basis_reconciliation: the positions of zip(alice_bases, bob_measurements) kept
BB84Sifted(s) ==
    LET n == IF Len(s.alice_bases) < Len(s.bob_measurements)
             THEN Len(s.alice_bases) ELSE Len(s.bob_measurements)
    IN  {i \in 1..n :
            /\ s.bob_measurements[i].detected
            /\ s.alice_bases[i] = s.bob_measurements[i].basis
            /\ ~(i <= Len(s.alice_intensities) /\ RLt(s.alice_intensities[i], Rat(1)))}

\* the elements of s at the positions in keep, in order
RECURSIVE Select(_, _, _)
Select(s, keep, i) ==
    IF i > Len(s) THEN <<>>
    ELSE (IF i \in keep THEN <<s[i]>> ELSE <<>>) \o Select(s, keep, i + 1)


\* run_protocol is called on the instance (its locals are fresh)
BB84RunProtocol ==
    /\ variant = "bb84"
    /\ pc \in {"idle", "done", "raised"}
    /\ runs < MaxRuns
    /\ Len(self.alice_bits) + NumPulses(params) <= MaxEvents
    /\ runs' = runs + 1
    /\ prev' = [draws |-> draws, result |-> result]
    /\ loc' = BB84Locals
    /\ trace' = <<>>
    /\ draws' = <<>>
    /\ result' = NoResult
    /\ pc' = "alice_prepare"
    /\ UNCHANGED <<variant, scenario, params, channel, self>>

\* Step 1: alice_prepare
BB84AlicePrepare ==
    /\ variant = "bb84"
    /\ pc = "alice_prepare"
    /\ \E d \in Product([i \in 1..NumPulses(params) |->
                    GenerateRandomBit \X GenerateRandomBasis(params) \X ChooseIntensity(params)]) :
        LET photons == [i \in 1..NumPulses(params) |->
                            Photon(d[i][1], d[i][2], d[i][3][2], d[i][3][1])]
        IN  /\ loc' = [loc EXCEPT !.photons = photons]
            /\ self' = [self EXCEPT
                   !.alice_bits = @ \o [i \in 1..Len(photons) |-> photons[i].bit],
                   !.alice_bases = @ \o [i \in 1..Len(photons) |-> photons[i].basis],
                   !.alice_intensities = @ \o [i \in 1..Len(photons) |-> photons[i].intensity]]
            /\ draws' = Append(draws, d)
    /\ trace' = Append(trace, "alice_prepare")
    /\ pc' = "quantum_channel"
    /\ UNCHANGED <<variant, scenario, params, channel, result, prev, runs>>

\* quantum_channel, one photon: the <<received, depolarized>> outcomes
ChannelOutcomes(photon) ==
    LET trans_prob == RMul(self.transmission_prob, photon.intensity)
    IN  {o \in BOOLEAN \X BOOLEAN :
            /\ o[1] \in RandomLess(trans_prob)
            /\ o[2] \in (IF o[1] THEN RandomLess(channel.depolarization_rate) ELSE {FALSE})}

Flip(basis) == IF basis = "RECTILINEAR" THEN "DIAGONAL" ELSE "RECTILINEAR"

\* Step 2: quantum_channel.  A received photon is the object Alice prepared
\* (received_photons[i] = <<i>> refers to photons[i]); a lost one is None (<<>>).
\* Depolarization assigns to the basis of that object.
BB84QuantumChannel ==
    /\ variant = "bb84"
    /\ pc = "quantum_channel"
    /\ \E d \in Product([i \in 1..Len(loc.photons) |-> ChannelOutcomes(loc.photons[i])]) :
        /\ loc' = [loc EXCEPT
               !.photons = [i \in 1..Len(loc.photons) |->
                               IF d[i][2] THEN [loc.photons[i] EXCEPT !.basis = Flip(@)]
                               ELSE loc.photons[i]],
               !.received_photons = [i \in 1..Len(loc.photons) |->
                               IF d[i][1] THEN <<i>> ELSE <<>>]]
        /\ draws' = Append(draws, d)
    /\ trace' = Append(trace, "quantum_channel")
    /\ IF Len(loc.photons) = 0
       THEN \* 100*received_count/len(photons) divides by zero
            /\ pc' = "raised"
            /\ result' = Raised("ZeroDivisionError")
       ELSE /\ pc' = "bob_measure"
            /\ UNCHANGED result
    /\ UNCHANGED <<variant, scenario, params, channel, self, prev, runs>>

\* variant: a received photon measured to a random bit in either basis
MeasureOutcomesRandomBit(i) ==
    LET n == Len(loc.received_photons)
        dark_prob == RDiv(RMul(channel.dark_count_rate, params.duration_seconds), Rat(n))
    IN  IF loc.received_photons[i] = <<>>
        THEN {o \in GenerateRandomBasis(params) \X BOOLEAN \X (Bit \cup {None}) :
                /\ o[2] \in RandomLess(dark_prob)
                /\ o[3] \in (IF o[2] THEN GenerateRandomBit ELSE {None})}
        ELSE {o \in GenerateRandomBasis(params) \X {FALSE} \X Bit :
                o[3] \in GenerateRandomBit}

\* variant: a dark count that records no bit
MeasureOutcomesDarkAbsent(i) ==
    LET n == Len(loc.received_photons)
        dark_prob == RDiv(RMul(channel.dark_count_rate, params.duration_seconds), Rat(n))
    IN  IF loc.received_photons[i] = <<>>
        THEN {o \in GenerateRandomBasis(params) \X BOOLEAN \X (Bit \cup {None}) :
                /\ o[2] \in RandomLess(dark_prob)
                /\ o[3] = None}
        ELSE {o \in GenerateRandomBasis(params) \X {FALSE} \X Bit :
                o[3] \in (IF loc.photons[i].basis = o[1]
                          THEN {loc.photons[i].bit} ELSE GenerateRandomBit)}

\* bob_measure, position i (1-based): the <<basis, dark count, bit>> outcomes
MeasureOutcomes(i) ==
    LET n == Len(loc.received_photons)
        dark_prob == RDiv(RMul(channel.dark_count_rate, params.duration_seconds), Rat(n))
    IN  IF loc.received_photons[i] = <<>>
        THEN {o \in GenerateRandomBasis(params) \X BOOLEAN \X (Bit \cup {None}) :
                /\ o[2] \in RandomLess(dark_prob)
                /\ o[3] \in (IF o[2] THEN GenerateRandomBit ELSE {None})}
        ELSE {o \in GenerateRandomBasis(params) \X {FALSE} \X Bit :
                o[3] \in (IF loc.photons[i].basis = o[1]
                          THEN {loc.photons[i].bit} ELSE GenerateRandomBit)}

\* Step 3: bob_measure
BB84BobMeasure ==
    /\ variant = "bb84"
    /\ pc = "bob_measure"
    /\ \E d \in Product([i \in 1..Len(loc.received_photons) |-> MeasureOutcomes(i)]) :
        /\ LET n == Len(loc.received_photons)
               stamp(i) == RDiv(RMul(Rat(i - 1), params.duration_seconds), Rat(n))
               detections == [i \in 1..n |->
                   IF loc.received_photons[i] = <<>>
                   THEN IF d[i][2] THEN Detection(d[i][3], d[i][1], TRUE, TRUE, stamp(i))
                        ELSE Detection(None, d[i][1], FALSE, FALSE, Rat(0))
                   ELSE Detection(d[i][3], d[i][1], TRUE, FALSE, stamp(i))]
           IN  /\ loc' = [loc EXCEPT !.detections = detections]
               /\ self' = [self EXCEPT !.bob_measurements = @ \o detections]
        /\ draws' = Append(draws, d)
    /\ trace' = Append(trace, "bob_measure")
    /\ pc' = "basis_reconciliation"
    /\ UNCHANGED <<variant, scenario, params, channel, result, prev, runs>>

\* variant: the check for an empty sifted key left out
BB84NoSiftedKeyUnchecked(alice_sifted) == Len(alice_sifted) < 0

\* run_protocol: if len(alice_sifted) == 0
BB84NoSiftedKey(alice_sifted) == Len(alice_sifted) = 0

\* variant: the verdict read without the negation
BB84NotSecureInverted(security_metrics) == security_metrics.secure

\* run_protocol: if not security_metrics['secure']
BB84NotSecure(security_metrics) == ~security_metrics.secure

\* Step 4: basis_reconciliation, then the check for an empty sifted key
BB84BasisReconciliation ==
    /\ variant = "bb84"
    /\ pc = "basis_reconciliation"
    /\ LET keep == BB84Sifted(self)
           alice_sifted == Select(self.alice_bits, keep, 1)
           bob_sifted == Select([i \in 1..Len(self.bob_measurements) |->
                                    self.bob_measurements[i].bit], keep, 1)
       IN  /\ self' = [self EXCEPT !.sifted_key = alice_sifted]
           /\ loc' = [loc EXCEPT !.alice_sifted = alice_sifted, !.bob_sifted = bob_sifted]
           /\ IF BB84NoSiftedKey(alice_sifted)
              THEN /\ result' = Returned([error |-> "No sifted key generated",
                                          success |-> FALSE])
                   /\ pc' = "done"
              ELSE /\ pc' = "error_estimation"
                   /\ UNCHANGED result
    /\ trace' = Append(trace, "basis_reconciliation")
    /\ UNCHANGED <<variant, scenario, params, channel, draws, prev, runs>>

\* Step 5: error_estimation
BB84ErrorEstimationStep ==
    /\ variant = "bb84"
    /\ pc = "error_estimation"
    /\ LET e == BB84ErrorEstimation(loc.alice_sifted, loc.bob_sifted, self.error_rate)
       IN  /\ loc' = [loc EXCEPT !.qber = e[1]]
           /\ self' = [self EXCEPT !.error_rate = e[2]]
    /\ trace' = Append(trace, "error_estimation")
    /\ pc' = "security_analysis"
    /\ UNCHANGED <<variant, scenario, params, channel, draws, result, prev, runs>>

\* Step 6: security_analysis, then the check of its verdict
BB84SecurityAnalysisStep ==
    /\ variant = "bb84"
    /\ pc = "security_analysis"
    /\ LET security_metrics == BB84SecurityAnalysis(self, params, channel)
       IN  /\ loc' = [loc EXCEPT !.security_metrics = security_metrics]
           /\ IF BB84NotSecure(security_metrics)
              THEN /\ result' = Returned([error |-> "QBER exceeds threshold",
                                          success |-> FALSE,
                                          metrics |-> security_metrics])
                   /\ pc' = "done"
              ELSE /\ pc' = "error_correction"
                   /\ UNCHANGED result
    /\ trace' = Append(trace, "security_analysis")
    /\ UNCHANGED <<variant, scenario, params, channel, self, draws, prev, runs>>

\* variant: error correction hands control back to error estimation
BB84ErrorCorrectionStepReentry ==
    /\ variant = "bb84"
    /\ pc = "error_correction"
    /\ LET c == BB84ErrorCorrection(loc.alice_sifted, loc.bob_sifted, self.error_rate, params)
       IN  loc' = [loc EXCEPT !.alice_corrected = c[1], !.bob_corrected = c[2]]
    /\ trace' = Append(trace, "error_correction")
    /\ pc' = "error_estimation"
    /\ UNCHANGED <<variant, scenario, params, channel, self, draws, result, prev, runs>>

\* Step 7: error_correction
BB84ErrorCorrectionStep ==
    /\ variant = "bb84"
    /\ pc = "error_correction"
    /\ LET c == BB84ErrorCorrection(loc.alice_sifted, loc.bob_sifted, self.error_rate, params)
       IN  loc' = [loc EXCEPT !.alice_corrected = c[1], !.bob_corrected = c[2]]
    /\ trace' = Append(trace, "error_correction")
    /\ pc' = "privacy_amplification"
    /\ UNCHANGED <<variant, scenario, params, channel, self, draws, result, prev, runs>>

\* Step 8: privacy_amplification, then the result of a successful run
BB84PrivacyAmplificationStep ==
    /\ variant = "bb84"
    /\ pc = "privacy_amplification"
    /\ LET a == BB84PrivacyAmplification(loc.alice_corrected, self.error_rate, params,
                                         self.final_key)
           final_key == a[1]
       IN  /\ loc' = [loc EXCEPT !.final_key = final_key]
           /\ self' = [self EXCEPT !.final_key = a[2]]
           /\ result' = Returned(
                  [success |-> TRUE,
                   final_key_bits |-> Len(final_key),
                   metrics |-> loc.security_metrics,
                   key_rate_bps |-> loc.security_metrics.secure_key_rate_bps,
                   efficiency |-> IF Len(loc.photons) # 0
                                  THEN Norm(<<Len(final_key), Len(loc.photons)>>)
                                  ELSE Rat(0)])
    /\ trace' = Append(trace, "privacy_amplification")
    /\ pc' = "done"
    /\ UNCHANGED <<variant, scenario, params, channel, draws, prev, runs>>

(***************************************************************************)
(* E91: configuration (e91.py, lines 13-59).                               *)
(***************************************************************************)
\* E91Parameters with its default values
E91Parameters ==
    [pair_generation_rate_hz |-> Rat(1000000),
     duration_seconds |-> Rat(1),
     detection_efficiency |-> <<4, 5>>,
     dark_count_rate |-> <<1, 1000000>>,
     bell_test_fraction |-> <<1, 10>>,
     timing_window_ns |-> Rat(1),
     bell_violation_threshold |-> Rat(2),
     error_correction_efficiency |-> <<6, 5>>,
     privacy_amplification_factor |-> Rat(2)]

\* ChannelParameters (e91.py) with its default values
E91ChannelParameters ==
    [loss_db_per_km |-> <<1, 5>>,
     alice_distance_km |-> Rat(25),
     bob_distance_km |-> Rat(25),
     depolarization_rate |-> <<1, 1000>>,
     timing_jitter_ns |-> Rat(100)]

\* The configurations explored: the defaults with the overrides a caller
\* passes to the two dataclasses, each generating n pairs per run.
E91Scenario(name, n) ==
    LET P == [E91Parameters EXCEPT !.pair_generation_rate_hz = Rat(n)]
        C == [E91ChannelParameters EXCEPT !.depolarization_rate = Rat(0)]
        Lossless == [C EXCEPT !.alice_distance_km = Rat(0), !.bob_distance_km = Rat(0)]
    IN  CASE name = "low_threshold" ->
             \* no loss in either arm, a Bell threshold below zero, half of
             \* the coincidences reserved for the Bell test
             [name |-> name,
              params |-> [P EXCEPT !.detection_efficiency = Rat(1),
                                   !.bell_violation_threshold = Rat(-1),
                                   !.bell_test_fraction = <<1, 2>>],
              channel |-> Lossless]
          [] name = "lossless" ->
             \* no loss in either arm, default thresholds
             [name |-> name,
              params |-> [P EXCEPT !.detection_efficiency = Rat(1)],
              channel |-> Lossless]
          [] name = "lossy" ->
             \* 50 km arms with the default depolarization: photons can be lost
             [name |-> name,
              params |-> [P EXCEPT !.bell_violation_threshold = Rat(-1)],
              channel |-> [E91ChannelParameters EXCEPT !.alice_distance_km = Rat(50),
                                                       !.bob_distance_km = Rat(50)]]
          [] name = "key_only" ->
             \* no loss in either arm, a Bell threshold below zero, no
             \* coincidence reserved for the Bell test
             [name |-> name,
              params |-> [P EXCEPT !.detection_efficiency = Rat(1),
                                   !.bell_violation_threshold = Rat(-1),
                                   !.bell_test_fraction = Rat(0)],
              channel |-> Lossless]
          [] name = "zero_window" ->
             \* the lossy arms with a coincidence window of 0 ns
             [name |-> name,
              params |-> [P EXCEPT !.bell_violation_threshold = Rat(-1),
                                   !.timing_window_ns = Rat(0)],
              channel |-> [E91ChannelParameters EXCEPT !.alice_distance_km = Rat(50),
                                                       !.bob_distance_km = Rat(50)]]
          [] name = "zero_threshold" ->
             \* no loss in either arm, a Bell threshold of 0, half of the
             \* coincidences reserved for the Bell test
             [name |-> name,
              params |-> [P EXCEPT !.detection_efficiency = Rat(1),
                                   !.bell_violation_threshold = Rat(0),
                                   !.bell_test_fraction = <<1, 2>>],
              channel |-> Lossless]
          [] name = "invalid" ->
             \* invalid ranges: a negative distance, a negative efficiency
             [name |-> name,
              params |-> [P EXCEPT !.detection_efficiency = <<-1, 2>>],
              channel |-> [C EXCEPT !.alice_distance_km = Rat(-50)]]
          [] name = "invalid_fraction" ->
             \* an invalid range: a Bell-test fraction above 1
             [name |-> name,
              params |-> [P EXCEPT !.detection_efficiency = Rat(1),
                                   !.bell_test_fraction = <<5, 2>>],
              channel |-> Lossless]

\* the scenarios whose caller calls run_protocol once, on at most one pair
E91SingleCall == {"lossless", "lossy", "invalid_fraction"}

\* low_threshold and invalid run with every pair count up to MaxEvents
E91Configs ==
    {E91Scenario(name, n) : name \in {"low_threshold", "invalid"}, n \in 0..MaxEvents}
    \cup {E91Scenario(name, n) : name \in E91SingleCall, n \in 0..1}

(***************************************************************************)
(* E91Protocol (e91.py, lines 61-440).                                     *)
(***************************************************************************)
\* _calculate_transmission
E91CalculateTransmission(c, distance_km) ==
    LET exponent == RDiv(RMul(RMul(Rat(-1), c.channel.loss_db_per_km), distance_km), Rat(10))
        loss_linear == Pow10(PyInt(exponent))
    IN  RMul(loss_linear, c.params.detection_efficiency)

\* __init__
E91New(c) ==
    [alice_measurements |-> <<>>, bob_measurements |-> <<>>,
     bell_test_pairs |-> <<>>, key_pairs |-> <<>>,
     bell_parameter |-> Rat(0), sifted_key |-> <<>>, final_key |-> <<>>,
     alice_transmission |-> E91CalculateTransmission(c, c.channel.alice_distance_km),
     bob_transmission |-> E91CalculateTransmission(c, c.channel.bob_distance_km)]

\* the locals of run_protocol before its first statement
E91Locals ==
    [pairs |-> <<>>, alice_measurements |-> <<>>, bob_measurements |-> <<>>,
     coincidences |-> <<>>, bell_pairs |-> <<>>, key_pairs |-> <<>>,
     bell_parameter |-> Rat(0), raw_key |-> <<>>, qber |-> Rat(0),
     security_metrics |-> NoMetrics, corrected_length |-> 0, final_length |-> 0]

\* EntangledPair
EntangledPair(creation_time, fidelity) ==
    [state |-> "phi_plus", creation_time |-> creation_time, fidelity |-> fidelity]

\* Measurement
Measurement(basis_angle, res, timestamp) ==
    [basis_angle |-> basis_angle, result |-> res, timestamp |-> timestamp, detected |-> TRUE]

\* int(pair_generation_rate_hz * duration_seconds)
NumPairs(p) == Max0(PyInt(RMul(p.pair_generation_rate_hz, p.duration_seconds)))

\* the values of random.random() explored where the value itself is used
RandomValues == {Rat(0), <<1, 2>>}

\* generate_entangled_pairs: the fidelities one pair can get
Fidelities(ch) ==
    {RMax(<<1, 2>>, RSub(Rat(1), RMul(r, ch.depolarization_rate))) : r \in RandomValues}

AliceAngles == {0, 45, 90}
BobAngles == {45, 90, 135}

\* _calculate_measurement_result for one outcome of its draws:
\*   noise: random.random() > 0.95;  any: the random.randint(0, 1) of a branch
\*   that returns it directly;  base: base_result;  keep: random.random() < fidelity
MeasurementResult(pair, angle, noise, any, base, keep) ==
    IF noise THEN any
    ELSE IF pair.state = "phi_plus" /\ angle \in {0, 90} THEN base
    ELSE IF pair.state = "phi_plus" /\ angle = 45 THEN (IF keep THEN base ELSE 1 - base)
    ELSE IF pair.state = "phi_plus" /\ angle = 135 THEN (IF keep THEN 1 - base ELSE base)
    ELSE any

\* _calculate_measurement_result: the results it can return
CalculateMeasurementResult(pair, angle) ==
    {MeasurementResult(pair, angle, noise, any, base, keep) :
        noise \in RandomGreater(<<19, 20>>), any \in {0, 1}, base \in {0, 1},
        keep \in RandomLess(pair.fidelity)}

\* _calculate_measurement_result: the results it can return when its
\* detector-noise branch (random.random() > 0.95) does not fire
NoiselessResults(pair, angle) ==
    {MeasurementResult(pair, angle, FALSE, any, base, keep) :
        any \in {0, 1}, base \in {0, 1}, keep \in RandomLess(pair.fidelity)}

\* alice_measure / bob_measure, one pair: None (<<>>) or a Measurement (<<m>>).
\* The photon is lost when random.random() > transmission.
MeasureOne(pair, transmission, angles) ==
    (IF TRUE \in RandomGreater(transmission) THEN {<<>>} ELSE {})
    \cup (IF FALSE \in RandomGreater(transmission)
          THEN UNION {{<<Measurement(angle, r, pair.creation_time)>> :
                          r \in CalculateMeasurementResult(pair, angle)} : angle \in angles}
          ELSE {})

\* the measurements a list of Optional[Measurement] holds, in order
RECURSIVE Detected(_)
Detected(ms) ==
    IF ms = <<>> THEN <<>> ELSE Head(ms) \o Detected(Tail(ms))

\* the comparison of coincidence_filtering
InWindow(alice_m, bob_m, p) ==
    RLe(RAbs(RSub(alice_m.timestamp, bob_m.timestamp)),
        RMul(p.timing_window_ns, <<1, 1000000000>>))

\* coincidence_filtering, from position i of zip(alice_ms, bob_ms) on
RECURSIVE CoincidenceFiltering(_, _, _, _)
CoincidenceFiltering(alice_ms, bob_ms, p, i) ==
    IF i > Len(alice_ms) \/ i > Len(bob_ms) THEN <<>>
    ELSE (IF alice_ms[i] # <<>> /\ bob_ms[i] # <<>>
          THEN (IF InWindow(alice_ms[i][1], bob_ms[i][1], p)
                THEN <<(<<alice_ms[i][1], bob_ms[i][1]>>)>> ELSE <<>>)
          ELSE <<>>)
         \o CoincidenceFiltering(alice_ms, bob_ms, p, i + 1)

\* _is_key_compatible
IsKeyCompatible(alice_angle, bob_angle) ==
    <<alice_angle, bob_angle>> \in
        {<<0, 45>>, <<45, 90>>, <<90, 135>>, <<45, 45>>, <<90, 90>>}

\* the sum of a sequence of integers
RECURSIVE Sum(_)
Sum(s) == IF s = <<>> THEN 0 ELSE Head(s) + Sum(Tail(s))

\* bell_test: the mean correlation recorded for an angle combination, 0 if none
AvgCorrelation(bell_pairs, key) ==
    LET idx == {i \in 1..Len(bell_pairs) :
                   <<bell_pairs[i][1].basis_angle, bell_pairs[i][2].basis_angle>> = key}
        values == Select([i \in 1..Len(bell_pairs) |->
                             IF bell_pairs[i][1].result = bell_pairs[i][2].result
                             THEN 1 ELSE -1], idx, 1)
    IN  IF idx = {} THEN Rat(0) ELSE Norm(<<Sum(values), Len(values)>>)

\* bell_test: the angle combinations whose correlations enter the CHSH sum
CHSHCombinations == {<<0, 45>>, <<0, 135>>, <<45, 45>>, <<45, 135>>}

\* the CHSH sum of bell_test
CHSH(bell_pairs) ==
    LET E_00_45 == AvgCorrelation(bell_pairs, <<0, 45>>)
        E_00_135 == AvgCorrelation(bell_pairs, <<0, 135>>)
        E_45_45 == AvgCorrelation(bell_pairs, <<45, 45>>)
        E_45_135 == AvgCorrelation(bell_pairs, <<45, 135>>)
    IN  RAbs(RAdd(RAdd(RSub(E_00_45, E_00_135), E_45_45), E_45_135))

\* variant: the CHSH sum computed from any non-empty sample
BellTestAnySample(bell_pairs, bell_parameter) ==
    IF Len(bell_pairs) < 1 THEN <<Rat(0), bell_parameter>>
    ELSE <<CHSH(bell_pairs), CHSH(bell_pairs)>>

\* bell_test: <<returned S, self.bell_parameter afterwards>>
BellTest(bell_pairs, bell_parameter) ==
    IF Len(bell_pairs) < 4 THEN <<Rat(0), bell_parameter>>
    ELSE <<CHSH(bell_pairs), CHSH(bell_pairs)>>

\* _expected_correlation(alice_angle, bob_angle) > 0, with cos computed in
\* floating point: cos(radians(90)) is 6.1e-17, a positive number
ExpectedCorrelationPositive(alice_angle, bob_angle) ==
    Abs(alice_angle - bob_angle) <= 90

\* error_estimation
E91ErrorEstimation(key_pairs) ==
    IF key_pairs = <<>> THEN Rat(1)
    ELSE LET errors == Cardinality({i \in 1..Len(key_pairs) :
                 IF ExpectedCorrelationPositive(key_pairs[i][1].basis_angle,
                                                key_pairs[i][2].basis_angle)
                 THEN key_pairs[i][1].result # key_pairs[i][2].result
                 ELSE key_pairs[i][1].result = key_pairs[i][2].result})
         IN  Norm(<<errors, Len(key_pairs)>>)

\* variant: the verdict taken from the Bell parameter alone
E91SecureBellOnly(bell_parameter, qber, p) ==
    RLt(p.bell_violation_threshold, bell_parameter)

\* the verdict of security_analysis
E91Secure(bell_parameter, qber, p) ==
    RLt(p.bell_violation_threshold, bell_parameter) /\ RLt(qber, <<11, 100>>)

\* security_analysis
E91SecurityAnalysis(bell_parameter, qber, s, p) ==
    LET secure == E91Secure(bell_parameter, qber, p)
        raw == RDiv(Rat(Len(s.sifted_key)), p.duration_seconds)
    IN  [bell_parameter |-> bell_parameter,
         qber |-> qber,
         secure |-> secure,
         eavesdropper_detected |-> RLt(bell_parameter, Rat(2)),
         raw_key_rate_bps |-> raw,
         secure_key_rate_bps |->
             IF secure THEN RMul(raw, SecureFraction(p.error_correction_efficiency, qber))
             ELSE Rat(0)]

\* variant: the raw key length scaled by 8 instead of 0.8
E91CorrectedLengthScaled(raw_key) == Max0(PyInt(RMul(Rat(Len(raw_key)), Rat(8))))

\* Step 9: max(0, int(len(raw_key) * 0.8))
E91CorrectedLength(raw_key) == Max0(PyInt(RMul(Rat(Len(raw_key)), <<4, 5>>)))

\* Step 9: max(0, int(corrected_length * 0.7))
E91FinalLength(corrected_length) == Max0(PyInt(RMul(Rat(corrected_length), <<7, 10>>)))

\* run_protocol is called on the instance (its locals are fresh)
E91RunProtocol ==
    /\ variant = "e91"
    /\ pc \in {"idle", "done", "raised"}
    /\ runs < MaxRuns
    /\ runs * NumPairs(params) + NumPairs(params) <= MaxEvents
    /\ scenario \in E91SingleCall => runs = 0
    /\ runs' = runs + 1
    /\ prev' = [draws |-> draws, result |-> result]
    /\ loc' = E91Locals
    /\ trace' = <<>>
    /\ draws' = <<>>
    /\ result' = NoResult
    /\ pc' = "generate_entangled_pairs"
    /\ UNCHANGED <<variant, scenario, params, channel, self>>

\* Step 1: generate_entangled_pairs
E91GenerateEntangledPairs ==
    /\ variant = "e91"
    /\ pc = "generate_entangled_pairs"
    /\ \E d \in Product([i \in 1..NumPairs(params) |-> Fidelities(channel)]) :
        /\ loc' = [loc EXCEPT !.pairs = [i \in 1..NumPairs(params) |->
               EntangledPair(RDiv(RMul(Rat(i - 1), params.duration_seconds),
                                  Rat(NumPairs(params))), d[i])]]
        /\ draws' = Append(draws, d)
    /\ trace' = Append(trace, "generate_entangled_pairs")
    /\ pc' = "alice_measure"
    /\ UNCHANGED <<variant, scenario, params, channel, self, result, prev, runs>>

\* Step 2: alice_measure
E91AliceMeasure ==
    /\ variant = "e91"
    /\ pc = "alice_measure"
    /\ \E d \in Product([i \in 1..Len(loc.pairs) |->
                    MeasureOne(loc.pairs[i], self.alice_transmission, AliceAngles)]) :
        /\ loc' = [loc EXCEPT !.alice_measurements = d]
        /\ self' = [self EXCEPT !.alice_measurements = @ \o Detected(d)]
        /\ draws' = Append(draws, d)
    /\ trace' = Append(trace, "alice_measure")
    /\ IF Len(loc.pairs) = 0
       THEN \* 100*detected/len(pairs) divides by zero
            /\ pc' = "raised"
            /\ result' = Raised("ZeroDivisionError")
       ELSE /\ pc' = "bob_measure"
            /\ UNCHANGED result
    /\ UNCHANGED <<variant, scenario, params, channel, prev, runs>>

\* Step 2: bob_measure
E91BobMeasure ==
    /\ variant = "e91"
    /\ pc = "bob_measure"
    /\ \E d \in Product([i \in 1..Len(loc.pairs) |->
                    MeasureOne(loc.pairs[i], self.bob_transmission, BobAngles)]) :
        /\ loc' = [loc EXCEPT !.bob_measurements = d]
        /\ self' = [self EXCEPT !.bob_measurements = @ \o Detected(d)]
        /\ draws' = Append(draws, d)
    /\ trace' = Append(trace, "bob_measure")
    /\ pc' = "coincidence_filtering"
    /\ UNCHANGED <<variant, scenario, params, channel, result, prev, runs>>

\* run_protocol: if len(coincidences) == 0
E91NoCoincidences(coincidences) == Len(coincidences) = 0

\* run_protocol: if len(raw_key) == 0
E91NoKeyMaterial(raw_key) == Len(raw_key) = 0

\* run_protocol: if security_metrics['secure']
E91IsSecure(security_metrics) == security_metrics.secure

\* Step 3: coincidence_filtering, then the check for no coincidence
E91CoincidenceFiltering ==
    /\ variant = "e91"
    /\ pc = "coincidence_filtering"
    /\ LET coincidences ==
               CoincidenceFiltering(loc.alice_measurements, loc.bob_measurements, params, 1)
       IN  /\ loc' = [loc EXCEPT !.coincidences = coincidences]
           /\ IF E91NoCoincidences(coincidences)
              THEN /\ result' = Returned([error |-> "No coincident detections",
                                          success |-> FALSE])
                   /\ pc' = "done"
              ELSE /\ pc' = "basis_selection"
                   /\ UNCHANGED result
    /\ trace' = Append(trace, "coincidence_filtering")
    /\ UNCHANGED <<variant, scenario, params, channel, self, draws, prev, runs>>

\* int(len(coincidences) * bell_test_fraction)
NumBellTest(coincidences, p) == PyInt(RMul(Rat(Len(coincidences)), p.bell_test_fraction))

\* the pairs of basis_selection once bell_test_indices is drawn
BellTestPairs(coincidences, bell_test_indices) ==
    Select(coincidences, bell_test_indices, 1)

\* variant: every pair outside the Bell-test sample becomes key material
KeyPairsUnfiltered(coincidences, bell_test_indices) ==
    Select(coincidences, {i \in 1..Len(coincidences) : i \notin bell_test_indices}, 1)

KeyPairs(coincidences, bell_test_indices) ==
    Select(coincidences,
           {i \in 1..Len(coincidences) :
               /\ i \notin bell_test_indices
               /\ IsKeyCompatible(coincidences[i][1].basis_angle,
                                  coincidences[i][2].basis_angle)}, 1)

\* Step 4: basis_selection.  random.sample raises ValueError when asked for
\* more elements than there are, or for a negative number of them.
E91BasisSelection ==
    /\ variant = "e91"
    /\ pc = "basis_selection"
    /\ LET n == Len(loc.coincidences)
           num_bell_test == NumBellTest(loc.coincidences, params)
       IN  IF num_bell_test > n \/ num_bell_test < 0
           THEN /\ pc' = "raised"
                /\ result' = Raised("ValueError")
                /\ UNCHANGED <<self, loc, draws>>
           ELSE /\ \E bell_test_indices \in SUBSET (1..n) :
                    /\ Cardinality(bell_test_indices) = num_bell_test
                    /\ LET bell_test_pairs == BellTestPairs(loc.coincidences, bell_test_indices)
                           key_pairs == KeyPairs(loc.coincidences, bell_test_indices)
                       IN  /\ self' = [self EXCEPT !.bell_test_pairs = bell_test_pairs,
                                                   !.key_pairs = key_pairs]
                           /\ loc' = [loc EXCEPT !.bell_pairs = bell_test_pairs,
                                                 !.key_pairs = key_pairs]
                    /\ draws' = Append(draws, bell_test_indices)
                /\ pc' = "bell_test"
                /\ UNCHANGED result
    /\ trace' = Append(trace, "basis_selection")
    /\ UNCHANGED <<variant, scenario, params, channel, prev, runs>>

\* Step 5: bell_test
E91BellTest ==
    /\ variant = "e91"
    /\ pc = "bell_test"
    /\ LET b == BellTest(loc.bell_pairs, self.bell_parameter)
       IN  /\ loc' = [loc EXCEPT !.bell_parameter = b[1]]
           /\ self' = [self EXCEPT !.bell_parameter = b[2]]
    /\ trace' = Append(trace, "bell_test")
    /\ pc' = "key_sifting"
    /\ UNCHANGED <<variant, scenario, params, channel, draws, result, prev, runs>>

\* Step 6: key_sifting, then the check for an empty raw key
E91KeySifting ==
    /\ variant = "e91"
    /\ pc = "key_sifting"
    /\ LET raw_key == [i \in 1..Len(loc.key_pairs) |-> loc.key_pairs[i][1].result]
       IN  /\ self' = [self EXCEPT !.sifted_key = raw_key]
           /\ loc' = [loc EXCEPT !.raw_key = raw_key]
           /\ IF E91NoKeyMaterial(raw_key)
              THEN /\ result' = Returned([error |-> "No key material generated",
                                          success |-> FALSE])
                   /\ pc' = "done"
              ELSE /\ pc' = "error_estimation"
                   /\ UNCHANGED result
    /\ trace' = Append(trace, "key_sifting")
    /\ UNCHANGED <<variant, scenario, params, channel, draws, prev, runs>>

\* Step 7: error_estimation
E91ErrorEstimationStep ==
    /\ variant = "e91"
    /\ pc = "error_estimation"
    /\ loc' = [loc EXCEPT !.qber = E91ErrorEstimation(loc.key_pairs)]
    /\ trace' = Append(trace, "error_estimation")
    /\ pc' = "security_analysis"
    /\ UNCHANGED <<variant, scenario, params, channel, self, draws, result, prev, runs>>

\* Step 8: security_analysis, then the failure branch of Step 9
E91SecurityAnalysisStep ==
    /\ variant = "e91"
    /\ pc = "security_analysis"
    /\ LET security_metrics == E91SecurityAnalysis(loc.bell_parameter, loc.qber, self, params)
       IN  /\ loc' = [loc EXCEPT !.security_metrics = security_metrics]
           /\ IF E91IsSecure(security_metrics)
              THEN /\ pc' = "post_processing"
                   /\ UNCHANGED result
              ELSE /\ result' = Returned([error |-> "Security conditions not met",
                                          success |-> FALSE,
                                          metrics |-> security_metrics,
                                          bell_parameter |-> loc.bell_parameter])
                   /\ pc' = "done"
    /\ trace' = Append(trace, "security_analysis")
    /\ UNCHANGED <<variant, scenario, params, channel, self, draws, prev, runs>>

\* Step 9, secure branch: error correction and privacy amplification as two
\* length reductions, then the result of a successful run
E91PostProcessing ==
    /\ variant = "e91"
    /\ pc = "post_processing"
    /\ LET corrected_length == E91CorrectedLength(loc.raw_key)
           final_length == E91FinalLength(corrected_length)
           final_key == PySlice(loc.raw_key, final_length)
       IN  /\ loc' = [loc EXCEPT !.corrected_length = corrected_length,
                                 !.final_length = final_length]
           /\ self' = [self EXCEPT !.final_key = final_key]
           /\ result' = Returned(
                  [success |-> TRUE,
                   final_key_bits |-> Len(final_key),
                   metrics |-> loc.security_metrics,
                   bell_parameter |-> loc.bell_parameter,
                   efficiency |-> IF Len(loc.pairs) # 0
                                  THEN Norm(<<Len(final_key), Len(loc.pairs)>>)
                                  ELSE Rat(0)])
    /\ trace' = trace \o <<"error_correction", "privacy_amplification">>
    /\ pc' = "done"
    /\ UNCHANGED <<variant, scenario, params, channel, draws, prev, runs>>

\* BB84Protocol(params, channel) has been constructed
BB84Init ==
    \E c \in BB84Configs :
        /\ variant = "bb84"
        /\ scenario = c.name
        /\ params = c.params
        /\ channel = c.channel
        /\ self = BB84New(c)
        /\ loc = BB84Locals

\* E91Protocol(params, channel) has been constructed
E91Init ==
    \E c \in E91Configs :
        /\ variant = "e91"
        /\ scenario = c.name
        /\ params = c.params
        /\ channel = c.channel
        /\ self = E91New(c)
        /\ loc = E91Locals

Init ==
    /\ BB84Init \/ E91Init
    /\ pc = "idle"
    /\ trace = <<>>
    /\ draws = <<>>
    /\ result = NoResult
    /\ prev = [draws |-> <<>>, result |-> NoResult]
    /\ runs = 0

Next ==
    \/ BB84RunProtocol
    \/ BB84AlicePrepare
    \/ BB84QuantumChannel
    \/ BB84BobMeasure
    \/ BB84BasisReconciliation
    \/ BB84ErrorEstimationStep
    \/ BB84SecurityAnalysisStep
    \/ BB84ErrorCorrectionStep
    \/ BB84PrivacyAmplificationStep
    \/ E91RunProtocol
    \/ E91GenerateEntangledPairs
    \/ E91AliceMeasure
    \/ E91BobMeasure
    \/ E91CoincidenceFiltering
    \/ E91BasisSelection
    \/ E91BellTest
    \/ E91KeySifting
    \/ E91ErrorEstimationStep
    \/ E91SecurityAnalysisStep
    \/ E91PostProcessing

Spec == Init /\ [][Next]_vars

(***************************************************************************)
(* Vocabulary of the properties.                                           *)
(***************************************************************************)
\* the current call has executed the named step
Executed(step) == \E i \in 1..Len(trace) : trace[i] = step

\* the calls of run_protocol, in the order of its source
BB84Stages ==
    <<"alice_prepare", "quantum_channel", "bob_measure", "basis_reconciliation",
      "error_estimation", "security_analysis", "error_correction",
      "privacy_amplification">>
E91Stages ==
    <<"generate_entangled_pairs", "alice_measure", "bob_measure",
      "coincidence_filtering", "basis_selection", "bell_test", "key_sifting",
      "error_estimation", "security_analysis", "error_correction",
      "privacy_amplification">>
\* the calls after which run_protocol returns a failure
BB84AbortPoints == {"basis_reconciliation", "security_analysis"}
E91AbortPoints == {"coincidence_filtering", "key_sifting", "security_analysis"}

\* the current call has ended
Ended == pc \in {"done", "raised"}

\* the security check of the current call has produced its verdict
VerdictReached == loc.security_metrics # NoMetrics

\* events generated, and the stage lengths, of the current call
RunEvents == IF variant = "bb84" THEN Len(loc.photons) ELSE Len(loc.pairs)
SiftedLen == IF variant = "bb84" THEN Len(loc.alice_sifted) ELSE Len(loc.raw_key)
CorrectedLen == IF variant = "bb84" THEN Len(loc.alice_corrected) ELSE loc.corrected_length
\* the final key length the result reports (none reported: 0)
FinalLen == IF "final_key_bits" \in result.keys THEN result.final_key_bits ELSE 0

\* the call returned a failure: success = false and a reason
ReturnedFailure ==
    /\ pc = "done"
    /\ result.state = "returned"
    /\ "success" \in result.keys
    /\ ~result.success
    /\ "error" \in result.keys
    /\ result.error # ""

\* a probability
InUnit(r) == RLe(Rat(0), r) /\ RLe(r, Rat(1))

\* the configuration has non-negative distances and probabilities in [0, 1]
ValidConfiguration ==
    IF variant = "bb84"
    THEN /\ RLe(Rat(0), channel.distance_km)
         /\ InUnit(params.basis_choice_prob)
         /\ InUnit(params.decoy_state_prob)
         /\ InUnit(channel.depolarization_rate)
         /\ InUnit(channel.detector_efficiency)
    ELSE /\ RLe(Rat(0), channel.alice_distance_km)
         /\ RLe(Rat(0), channel.bob_distance_km)
         /\ InUnit(params.detection_efficiency)
         /\ InUnit(params.bell_test_fraction)
         /\ InUnit(channel.depolarization_rate)

(***************************************************************************)
(* Calls of single functions.  The specifications below start the program  *)
(* at the entry of one function, with arguments drawn from bounded sets,    *)
(* and take the steps of the model from there.                              *)
(***************************************************************************)
\* longest sifted sequence passed to a function
MaxSifted == 3
\* largest number of key pairs passed to E91Protocol.error_estimation
MaxKeyPairs == 2

\* the bit sequences of length lo..hi
BitSeqs(lo, hi) == UNION {[1..k -> Bit] : k \in lo..hi}

\* the BB84 configuration of the named scenario with n pulses per run
BB84Config(name, n) == CHOOSE c \in BB84Scenarios(n) : c.name = name

\* the program inside its first run_protocol call, about to execute step at,
\* the steps in done behind it
InCall(v, c, s, l, at, done) ==
    /\ variant = v
    /\ scenario = c.name
    /\ params = c.params
    /\ channel = c.channel
    /\ self = s
    /\ loc = l
    /\ pc = at
    /\ trace = done
    /\ draws = <<>>
    /\ result = NoResult
    /\ prev = [draws |-> <<>>, result |-> NoResult]
    /\ runs = 1

\* the key-compatible coincidences of one pair created at time t
KeyCoincidences(t) ==
    {co \in {<<Measurement(a, ra, t), Measurement(b, rb, t)>> :
                a \in AliceAngles, b \in BobAngles, ra \in {0, 1}, rb \in {0, 1}} :
        IsKeyCompatible(co[1].basis_angle, co[2].basis_angle)}

\* BB84Protocol.error_estimation is called with any two bit sequences
BB84ErrorEstimationCall ==
    \E alice_sifted \in BitSeqs(0, MaxSifted), bob_sifted \in BitSeqs(0, MaxSifted) :
        LET c == BB84Config("threshold_one", 1)
        IN  InCall("bb84", c, BB84New(c),
                   [BB84Locals EXCEPT !.alice_sifted = alice_sifted,
                                      !.bob_sifted = bob_sifted],
                   "error_estimation", SubSeq(BB84Stages, 1, 4))

\* E91Protocol.error_estimation is called with any list of key pairs
E91ErrorEstimationCall ==
    \E n \in 0..MaxKeyPairs :
        \E key_pairs \in Product([i \in 1..n |-> KeyCoincidences(Rat(0))]) :
            LET c == E91Scenario("low_threshold", 1)
            IN  InCall("e91", c, [E91New(c) EXCEPT !.key_pairs = key_pairs],
                       [E91Locals EXCEPT !.key_pairs = key_pairs],
                       "error_estimation", SubSeq(E91Stages, 1, 7))

ErrorEstimationInit == BB84ErrorEstimationCall \/ E91ErrorEstimationCall

ErrorEstimationNext == BB84ErrorEstimationStep \/ E91ErrorEstimationStep

ErrorEstimationSpec == ErrorEstimationInit /\ [][ErrorEstimationNext]_vars

\* largest Bell-test sample passed to bell_test
MaxBellPairs == 4

\* the coincidences alice_measure and bob_measure can produce from one pair
\* of fidelity 1 at the four angle combinations of the CHSH sum
BellSamples ==
    LET pair == EntangledPair(Rat(0), Rat(1))
    IN  {<<am[1], bm[1]>> : am \in MeasureOne(pair, Rat(1), {0, 45}),
                            bm \in MeasureOne(pair, Rat(1), {45, 135})}

\* bell_test is called with any sample of such coincidences
BellTestInit ==
    \E n \in 0..MaxBellPairs :
        \E bell_pairs \in Product([i \in 1..n |-> BellSamples]) :
            LET c == E91Scenario("lossless", 1)
            IN  InCall("e91", c, [E91New(c) EXCEPT !.bell_test_pairs = bell_pairs],
                       [E91Locals EXCEPT !.bell_pairs = bell_pairs],
                       "bell_test", SubSeq(E91Stages, 1, 5))

BellTestNext == E91BellTest

BellTestSpec == BellTestInit /\ [][BellTestNext]_vars

\* BB84 run_protocol of n = Len(alice_sifted) pulses has sifted every
\* position: both sides used the rectilinear basis, nothing was lost, and
\* Bob's bit differs from Alice's where the channel flipped the photon's basis
BB84AfterSifting(alice_sifted, bob_sifted) ==
    LET n == Len(alice_sifted)
        c == BB84Config("threshold_one", n)
        photons == [i \in 1..n |->
                       Photon(alice_sifted[i],
                              IF alice_sifted[i] = bob_sifted[i]
                              THEN "RECTILINEAR" ELSE Flip("RECTILINEAR"),
                              FALSE, Rat(1))]
        detections == [i \in 1..n |->
                          Detection(bob_sifted[i], "RECTILINEAR", TRUE, FALSE,
                                    RDiv(RMul(Rat(i - 1), c.params.duration_seconds),
                                         Rat(n)))]
    IN  InCall("bb84", c,
               [BB84New(c) EXCEPT
                   !.alice_bits = alice_sifted,
                   !.alice_bases = [i \in 1..n |-> "RECTILINEAR"],
                   !.alice_intensities = [i \in 1..n |-> Rat(1)],
                   !.bob_measurements = detections,
                   !.sifted_key = alice_sifted],
               [BB84Locals EXCEPT
                   !.photons = photons,
                   !.received_photons = [i \in 1..n |-> <<i>>],
                   !.detections = detections,
                   !.alice_sifted = alice_sifted,
                   !.bob_sifted = bob_sifted],
               "error_estimation", SubSeq(BB84Stages, 1, 4))

\* E91 run_protocol of n = Len(key_pairs) pairs has kept every pair as key
\* material: nothing was lost and no pair was reserved for the Bell test
E91AfterSifting(key_pairs) ==
    LET n == Len(key_pairs)
        c == E91Scenario("key_only", n)
        raw_key == [i \in 1..n |-> key_pairs[i][1].result]
        alice_ms == [i \in 1..n |-> <<key_pairs[i][1]>>]
        bob_ms == [i \in 1..n |-> <<key_pairs[i][2]>>]
    IN  InCall("e91", c,
               [E91New(c) EXCEPT
                   !.alice_measurements = Detected(alice_ms),
                   !.bob_measurements = Detected(bob_ms),
                   !.key_pairs = key_pairs,
                   !.sifted_key = raw_key],
               [E91Locals EXCEPT
                   !.pairs = [i \in 1..n |->
                                 EntangledPair(key_pairs[i][1].timestamp, Rat(1))],
                   !.alice_measurements = alice_ms,
                   !.bob_measurements = bob_ms,
                   !.coincidences = key_pairs,
                   !.key_pairs = key_pairs,
                   !.raw_key = raw_key],
               "error_estimation", SubSeq(E91Stages, 1, 7))

\* the creation time of pair i of n
CreationTime(i, n) == RDiv(RMul(Rat(i - 1), E91Parameters.duration_seconds), Rat(n))

SiftedInit ==
    \/ \E n \in 1..MaxSifted :
           \E alice_sifted \in BitSeqs(n, n), bob_sifted \in BitSeqs(n, n) :
               BB84AfterSifting(alice_sifted, bob_sifted)
    \/ \E n \in 1..MaxSifted :
           \E key_pairs \in Product([i \in 1..n |-> KeyCoincidences(CreationTime(i, n))]) :
               E91AfterSifting(key_pairs)

SiftedNext ==
    \/ BB84ErrorEstimationStep
    \/ BB84SecurityAnalysisStep
    \/ BB84ErrorCorrectionStep
    \/ BB84PrivacyAmplificationStep
    \/ E91ErrorEstimationStep
    \/ E91SecurityAnalysisStep
    \/ E91PostProcessing

SiftedSpec == SiftedInit /\ [][SiftedNext]_vars

\* largest number of pairs measured before coincidence_filtering is called
MaxMeasured == 2

\* E91 run_protocol of n pairs of fidelity 1 has measured them on both sides
E91AfterMeasuring(c, alice_ms, bob_ms) ==
    LET n == NumPairs(c.params)
    IN  InCall("e91", c,
               [E91New(c) EXCEPT !.alice_measurements = Detected(alice_ms),
                                 !.bob_measurements = Detected(bob_ms)],
               [E91Locals EXCEPT
                   !.pairs = [i \in 1..n |-> EntangledPair(CreationTime(i, n), Rat(1))],
                   !.alice_measurements = alice_ms,
                   !.bob_measurements = bob_ms],
               "coincidence_filtering", SubSeq(E91Stages, 1, 3))

CoincidenceInit ==
    \E n \in 1..MaxMeasured, name \in {"lossy", "zero_window"} :
        LET c == E91Scenario(name, n)
            s == E91New(c)
            pair(i) == EntangledPair(CreationTime(i, n), Rat(1))
        IN  \E alice_ms \in Product([i \in 1..n |->
                               MeasureOne(pair(i), s.alice_transmission, AliceAngles)]),
               bob_ms \in Product([i \in 1..n |->
                               MeasureOne(pair(i), s.bob_transmission, BobAngles)]) :
                E91AfterMeasuring(c, alice_ms, bob_ms)

CoincidenceNext == E91CoincidenceFiltering

CoincidenceSpec == CoincidenceInit /\ [][CoincidenceNext]_vars

\* largest number of coincidences passed to basis_selection
MaxCoincidences == 2

\* the coincidences alice_measure and bob_measure can produce from a pair of
\* fidelity 1 that reaches both sides, Alice's result being 0: every angle
\* combination, with Bob's result equal to Alice's or different from it
CoincidenceSamples(pair) ==
    {co \in {<<am[1], bm[1]>> : am \in MeasureOne(pair, Rat(1), AliceAngles),
                                bm \in MeasureOne(pair, Rat(1), BobAngles)} :
        co[1].result = 0}

\* E91 run_protocol of n = Len(coincidences) pairs has detected every pair on
\* both sides and found them all coincident
E91AfterCoincidence(c, coincidences) ==
    LET n == Len(coincidences)
        alice_ms == [i \in 1..n |-> <<coincidences[i][1]>>]
        bob_ms == [i \in 1..n |-> <<coincidences[i][2]>>]
    IN  InCall("e91", c,
               [E91New(c) EXCEPT !.alice_measurements = Detected(alice_ms),
                                 !.bob_measurements = Detected(bob_ms)],
               [E91Locals EXCEPT
                   !.pairs = [i \in 1..n |-> EntangledPair(CreationTime(i, n), Rat(1))],
                   !.alice_measurements = alice_ms,
                   !.bob_measurements = bob_ms,
                   !.coincidences = coincidences],
               "basis_selection", SubSeq(E91Stages, 1, 4))

\* the lossless scenarios basis_selection is entered with
SelectionScenarios == {"low_threshold", "lossless", "zero_threshold"}

SelectionInit ==
    \E n \in 1..MaxCoincidences, name \in SelectionScenarios :
        \E coincidences \in Product([i \in 1..n |->
                               CoincidenceSamples(EntangledPair(CreationTime(i, n), Rat(1)))]) :
            E91AfterCoincidence(E91Scenario(name, n), coincidences)

SelectionNext ==
    \/ E91BasisSelection
    \/ E91BellTest
    \/ E91KeySifting
    \/ E91ErrorEstimationStep
    \/ E91SecurityAnalysisStep
    \/ E91PostProcessing

SelectionSpec == SelectionInit /\ [][SelectionNext]_vars

\* error_estimation is called with any two bit sequences and security_analysis
\* is called after it
AnalysisInit == BB84ErrorEstimationCall

AnalysisNext == BB84ErrorEstimationStep \/ BB84SecurityAnalysisStep

AnalysisSpec == AnalysisInit /\ [][AnalysisNext]_vars

(***************************************************************************)
(* C1.  A run whose security check yields secure = false returns           *)
(* success = false, reports no final key, and executes neither error       *)
(* correction nor privacy amplification (both variants).                   *)
(***************************************************************************)
C1_InsecureRunYieldsNoKey ==
    (VerdictReached /\ ~loc.security_metrics.secure) =>
        /\ ReturnedFailure
        /\ "final_key_bits" \notin result.keys
        /\ FinalLen = 0
        /\ ~Executed("error_correction")
        /\ ~Executed("privacy_amplification")

\* a BB84 call that failed its security check on a sifted key of two bits
C1_Witness ==
    /\ variant = "bb84"
    /\ VerdictReached /\ ~loc.security_metrics.secure
    /\ SiftedLen = 2
    /\ pc = "done"

(***************************************************************************)
(* C2.  On a freshly constructed instance the stage lengths of a run are   *)
(* monotone: 0 <= sifted <= events generated, 0 <= corrected <= sifted,    *)
(* 0 <= final <= corrected.                                                *)
(***************************************************************************)
C2_StageLengthsMonotone ==
    runs = 1 =>
        /\ 0 <= SiftedLen /\ SiftedLen <= RunEvents
        /\ 0 <= CorrectedLen /\ CorrectedLen <= SiftedLen
        /\ 0 <= FinalLen /\ FinalLen <= CorrectedLen

\* a successful first BB84 run of two pulses in which error correction and
\* privacy amplification each removed a bit
C2_Witness ==
    /\ runs = 1 /\ pc = "done" /\ result.success
    /\ RunEvents = 2 /\ SiftedLen = 2 /\ CorrectedLen = 1 /\ FinalLen = 0

(***************************************************************************)
(* C3.  BB84: secure is true exactly when the measured QBER is strictly    *)
(* below qber_threshold; when QBER >= qber_threshold the run ends with     *)
(* secure = false, success = false and final key length 0.                 *)
(***************************************************************************)
C3_SecureIffBelowThreshold ==
    (variant = "bb84" /\ VerdictReached) =>
        /\ loc.security_metrics.secure <=> RLt(loc.qber, params.qber_threshold)
        /\ RLe(params.qber_threshold, loc.qber) =>
               /\ ~loc.security_metrics.secure
               /\ ReturnedFailure
               /\ FinalLen = 0
               /\ Len(loc.final_key) = 0

\* a BB84 run whose measured QBER equals the threshold
C3_Witness ==
    /\ variant = "bb84" /\ VerdictReached
    /\ SiftedLen >= 1
    /\ loc.qber = params.qber_threshold
    /\ pc = "done"

(***************************************************************************)
(* C4.  E91: secure is true exactly when S > bell_violation_threshold and  *)
(* QBER < 0.11; if either fails the run returns success = false.           *)
(***************************************************************************)
C4_SecureIffBellAndQber ==
    (variant = "e91" /\ VerdictReached) =>
        /\ loc.security_metrics.secure <=>
               (RLt(params.bell_violation_threshold, loc.bell_parameter)
                /\ RLt(loc.qber, <<11, 100>>))
        /\ ~(RLt(params.bell_violation_threshold, loc.bell_parameter)
             /\ RLt(loc.qber, <<11, 100>>)) => ReturnedFailure
        /\ result.state = "returned" =>
               /\ result.metrics.secure = loc.security_metrics.secure
               /\ result.success = loc.security_metrics.secure

\* an E91 run with S above the threshold whose QBER is too high
C4_Witness ==
    /\ variant = "e91" /\ VerdictReached
    /\ RLt(params.bell_violation_threshold, loc.bell_parameter)
    /\ ~RLt(loc.qber, <<11, 100>>)
    /\ pc = "done"

C5_WitnessComplete ==
    /\ variant = "bb84" /\ pc = "done" /\ result.success
    /\ trace = BB84Stages

(***************************************************************************)
(* C6.  Every returned result carries a success flag and the metrics       *)
(* computed up to the return: the QBER once error estimation has run, and  *)
(* for E91 the Bell parameter once the Bell test has run.                  *)
(***************************************************************************)
C6_ResultCarriesMetrics ==
    result.state = "returned" =>
        /\ "success" \in result.keys
        /\ Executed("error_estimation") =>
               /\ "metrics" \in result.keys
               /\ "qber" \in DOMAIN result.metrics
               /\ result.metrics.qber = loc.qber
        /\ Executed("bell_test") =>
               /\ "bell_parameter" \in result.keys
               /\ result.bell_parameter = loc.bell_parameter

(***************************************************************************)
(* C7.  If sifting yields an empty sequence, the run ends with             *)
(* success = false and a failure reason, and error estimation, the         *)
(* security verdict, error correction and privacy amplification are not    *)
(* executed in that run.                                                   *)
(***************************************************************************)
C7_EmptySiftAborts ==
    LET sifted_empty ==
            \/ Executed("basis_reconciliation") /\ Len(loc.alice_sifted) = 0
            \/ Executed("coincidence_filtering") /\ Len(loc.coincidences) = 0
            \/ Executed("key_sifting") /\ Len(loc.raw_key) = 0
    IN  sifted_empty =>
            /\ ReturnedFailure
            /\ ~Executed("error_estimation")
            /\ ~Executed("security_analysis")
            /\ ~VerdictReached
            /\ ~Executed("error_correction")
            /\ ~Executed("privacy_amplification")

\* a BB84 run that generated a pulse and sifted nothing
C7_Witness ==
    /\ variant = "bb84" /\ pc = "done"
    /\ RunEvents >= 1
    /\ Executed("basis_reconciliation") /\ Len(loc.alice_sifted) = 0

\* an E91 run whose coincidences left no key material
C7_WitnessE91 ==
    /\ variant = "e91" /\ pc = "done"
    /\ Len(loc.coincidences) >= 1
    /\ Executed("key_sifting") /\ Len(loc.raw_key) = 0

(***************************************************************************)
(* C8.  For a configuration with non-negative distances and probabilities  *)
(* in [0, 1], including one that generates zero events, run_protocol ends  *)
(* by returning a result with a success flag and never by raising.         *)
(***************************************************************************)
C8_ValidConfigurationNeverRaises ==
    (ValidConfiguration /\ Ended) =>
        /\ pc # "raised"
        /\ result.state = "returned"
        /\ "success" \in result.keys

(***************************************************************************)
(* C9.  A configuration with a negative distance or a probability outside  *)
(* [0, 1] is rejected before any event is generated, and the rejection is  *)
(* not a returned result (a protocol failure).                             *)
(***************************************************************************)
C9_InvalidConfigurationRejected ==
    ~ValidConfiguration =>
        /\ ~Executed("alice_prepare")
        /\ ~Executed("generate_entangled_pairs")
        /\ RunEvents = 0
        /\ result.state # "returned"

(***************************************************************************)
(* C10.  The result of a run is a function of the parameters and the       *)
(* random draws alone: a run that makes the same draws as the run before   *)
(* it on the same instance returns the same result.                        *)
(***************************************************************************)
C10_ResultIsFunctionOfSeed ==
    (runs >= 2 /\ Ended /\ draws = prev.draws) => result = prev.result

(***************************************************************************)
(* C11.  The QBER returned by error_estimation lies in [0, 1] for every    *)
(* input, in both variants, including empty and unequal-length inputs.     *)
(***************************************************************************)
C11_QberInUnitInterval ==
    Executed("error_estimation") => InUnit(loc.qber)

\* BB84 error_estimation has returned for inputs of unequal length
C11_Witness ==
    /\ variant = "bb84" /\ Executed("error_estimation")
    /\ Len(loc.alice_sifted) # Len(loc.bob_sifted)
    /\ Len(loc.alice_sifted) >= 1

(***************************************************************************)
(* C12 as stated.  For every bit sequence s, BB84 error_estimation(s, s)   *)
(* returns exactly 0.                                                      *)
(***************************************************************************)
C12_SelfComparisonIsZero ==
    (variant = "bb84" /\ Executed("error_estimation")
     /\ loc.alice_sifted = loc.bob_sifted) => loc.qber = Rat(0)

(***************************************************************************)
(* C12 as amended.  For every non-empty bit sequence s, BB84               *)
(* error_estimation(s, s) returns exactly 0; for the empty sequence it     *)
(* returns 1.                                                              *)
(***************************************************************************)
C12_NonEmptySelfComparisonIsZero ==
    (variant = "bb84" /\ Executed("error_estimation")
     /\ loc.alice_sifted = loc.bob_sifted) =>
        loc.qber = (IF Len(loc.alice_sifted) = 0 THEN Rat(1) ELSE Rat(0))

\* error_estimation has returned for a sequence of two or more bits compared
\* against itself
C12_Witness ==
    /\ variant = "bb84" /\ Executed("error_estimation")
    /\ loc.alice_sifted = loc.bob_sifted
    /\ Len(loc.alice_sifted) >= 2
    /\ \E i, j \in 1..Len(loc.alice_sifted) : loc.alice_sifted[i] # loc.alice_sifted[j]

(***************************************************************************)
(* C13.  BB84 with depolarization_rate = 0 and dark_count_rate = 0: the    *)
(* sender's and the receiver's sifted sequences are identical for every    *)
(* outcome of the random draws, and the QBER of every run with a non-empty *)
(* sifted key is 0.                                                        *)
(***************************************************************************)
C13_NoiselessSiftedKeysAgree ==
    (/\ variant = "bb84"
     /\ channel.depolarization_rate = Rat(0)
     /\ channel.dark_count_rate = Rat(0)) =>
        /\ loc.alice_sifted = loc.bob_sifted
        /\ Executed("error_estimation") =>
               /\ loc.qber = Rat(0)
               /\ self.error_rate = Rat(0)

\* a noiseless run of two pulses that sifted one and dropped the other, which
\* Bob had measured in the other basis
C13_Witness ==
    /\ variant = "bb84" /\ scenario = "noiseless"
    /\ Executed("error_estimation")
    /\ RunEvents = 2 /\ SiftedLen = 1
    /\ \E i \in 1..2 : /\ loc.detections[i].detected
                       /\ loc.detections[i].basis # loc.photons[i].basis

(***************************************************************************)
(* C14.  The CHSH value S returned by bell_test satisfies                  *)
(* 0 <= S <= 2*sqrt(2) (that is, S >= 0 and S*S <= 8) for every Bell-test  *)
(* sample the measurement function can produce.                            *)
(***************************************************************************)
C14_BellParameterWithinQuantumBound ==
    Executed("bell_test") =>
        /\ RLe(Rat(0), loc.bell_parameter)
        /\ RLe(RMul(loc.bell_parameter, loc.bell_parameter), Rat(8))

(***************************************************************************)
(* C15.  A photon is never modified after it has been generated: every     *)
(* step after alice_prepare, channel transmission included, leaves the     *)
(* fields of every generated photon unchanged.                             *)
(***************************************************************************)
C15_PhotonsImmutable ==
    [][(variant = "bb84" /\ Executed("alice_prepare") /\ pc' # "alice_prepare")
          => loc'.photons = loc.photons]_vars

(***************************************************************************)
(* C16.  BB84 sifting (stated for the first run of an instance) retains    *)
(* position i if and only if Bob registered a detection at i, Alice's      *)
(* recorded basis at i equals Bob's measurement basis at i, and pulse i is *)
(* of the signal intensity class; the two returned sequences have equal    *)
(* length and contain no absent bit.                                       *)
(***************************************************************************)
C16_SiftingKeepsMatchingSignalPositions ==
    (variant = "bb84" /\ runs = 1 /\ Executed("basis_reconciliation")) =>
        LET retained == {i \in 1..Len(loc.photons) :
                            /\ loc.detections[i].detected
                            /\ self.alice_bases[i] = loc.detections[i].basis
                            /\ ~loc.photons[i].is_decoy}
            bob_bits == [i \in 1..Len(loc.detections) |-> loc.detections[i].bit]
        IN  /\ loc.alice_sifted = Select(self.alice_bits, retained, 1)
            /\ loc.bob_sifted = Select(bob_bits, retained, 1)
            /\ Len(loc.alice_sifted) = Len(loc.bob_sifted)
            /\ \A j \in 1..Len(loc.bob_sifted) : loc.bob_sifted[j] # None

(***************************************************************************)
(* C17.  For a successful BB84 run, final_key_bits equals                  *)
(* max(0, c - min(c, floor(c * QBER * paFactor))) where                    *)
(* c = max(0, sifted_len - floor(ecEfficiency * sifted_len * QBER)) and    *)
(* QBER is the value measured on that run's sifted sequences.              *)
(***************************************************************************)
C17_BB84FinalKeyLength ==
    (variant = "bb84" /\ pc = "done" /\ result.success) =>
        LET floor(r) == r[1] \div r[2]
            min(a, b) == IF a < b THEN a ELSE b
            n == Len(loc.alice_sifted)
            errors == Cardinality({i \in 1..n : loc.alice_sifted[i] # loc.bob_sifted[i]})
            q == Norm(<<errors, n>>)
            leaked == floor(RMul(RMul(params.error_correction_efficiency, Rat(n)), q))
            c == Max0(n - leaked)
            eve == min(c, floor(RMul(RMul(Rat(c), q), params.privacy_amplification_factor)))
        IN  /\ loc.qber = q
            /\ Len(loc.alice_corrected) = c
            /\ result.final_key_bits = Max0(c - eve)

\* a successful BB84 run with errors in its sifted key that kept some bits
\* and dropped others
C17_Witness ==
    /\ variant = "bb84" /\ pc = "done" /\ result.success
    /\ RLt(Rat(0), loc.qber)
    /\ result.final_key_bits >= 1
    /\ result.final_key_bits < Len(loc.alice_corrected)
    /\ Len(loc.alice_corrected) < Len(loc.alice_sifted)

(***************************************************************************)
(* C18.  For a successful E91 run, the corrected and final key lengths     *)
(* are computed from the measured QBER as in BB84:                         *)
(* corrected = max(0, n - floor(ecEfficiency * n * QBER)) and              *)
(* final = max(0, corrected - min(corrected, floor(corrected * QBER *      *)
(* paFactor))), n the raw key length.                                      *)
(***************************************************************************)
C18_E91LengthsDrivenByQber ==
    (variant = "e91" /\ pc = "done" /\ result.success) =>
        LET floor(r) == r[1] \div r[2]
            min(a, b) == IF a < b THEN a ELSE b
            n == Len(loc.raw_key)
            q == loc.qber
            leaked == floor(RMul(RMul(params.error_correction_efficiency, Rat(n)), q))
            c == Max0(n - leaked)
            eve == min(c, floor(RMul(RMul(Rat(c), q), params.privacy_amplification_factor)))
        IN  /\ loc.corrected_length = c
            /\ result.final_key_bits = Max0(c - eve)

(***************************************************************************)
(* C19.  Error correction and privacy amplification are stable prefix      *)
(* truncations in both variants: the corrected key is a prefix of the      *)
(* sifted key, the final key is a prefix of the corrected key, and the     *)
(* sifted key handed to them is unchanged afterwards.                      *)
(***************************************************************************)
C19_StablePrefixTruncation ==
    LET IsPrefix(s, t) == /\ Len(s) <= Len(t)
                          /\ \A i \in 1..Len(s) : s[i] = t[i]
    IN  /\ (variant = "bb84" /\ Executed("error_correction")) =>
               /\ IsPrefix(loc.alice_corrected, loc.alice_sifted)
               /\ IsPrefix(loc.bob_corrected, loc.bob_sifted)
               /\ self.sifted_key = loc.alice_sifted
        /\ (variant = "bb84" /\ Executed("privacy_amplification")) =>
               /\ IsPrefix(loc.final_key, loc.alice_corrected)
               /\ self.final_key = loc.final_key
               /\ self.sifted_key = loc.alice_sifted
        /\ (variant = "e91" /\ Executed("privacy_amplification")) =>
               /\ loc.corrected_length <= Len(loc.raw_key)
               /\ loc.final_length <= loc.corrected_length
               /\ Len(self.final_key) = loc.final_length
               /\ IsPrefix(self.final_key, loc.raw_key)
               /\ self.sifted_key = loc.raw_key

\* a BB84 run that truncated a sifted key holding both bit values at both steps
C19_Witness ==
    /\ variant = "bb84" /\ Executed("privacy_amplification")
    /\ 1 <= Len(loc.final_key)
    /\ Len(loc.final_key) < Len(loc.alice_corrected)
    /\ Len(loc.alice_corrected) < Len(loc.alice_sifted)
    /\ \E i, j \in 1..Len(loc.alice_sifted) : loc.alice_sifted[i] # loc.alice_sifted[j]

\* an E91 run whose final key is a non-empty proper prefix of the raw key
C19_WitnessE91 ==
    /\ variant = "e91" /\ Executed("privacy_amplification")
    /\ 1 <= Len(self.final_key)
    /\ Len(self.final_key) < Len(loc.raw_key)

(***************************************************************************)
(* C20.  Coincidence filtering keeps an event pair if and only if both     *)
(* sides detected it and their timestamps differ by strictly less than the *)
(* coincidence window; a window of 0 keeps no pair.                        *)
(***************************************************************************)
C20_CoincidenceWindowIsStrict ==
    (variant = "e91" /\ Executed("coincidence_filtering")) =>
        LET n == Len(loc.pairs)
            window == RMul(params.timing_window_ns, <<1, 1000000000>>)
            both(i) == loc.alice_measurements[i] # <<>> /\ loc.bob_measurements[i] # <<>>
            kept == {i \in 1..n :
                        /\ both(i)
                        /\ RLt(RAbs(RSub(loc.alice_measurements[i][1].timestamp,
                                         loc.bob_measurements[i][1].timestamp)), window)}
            candidates == [i \in 1..n |->
                              IF both(i)
                              THEN <<loc.alice_measurements[i][1], loc.bob_measurements[i][1]>>
                              ELSE <<>>]
        IN  /\ loc.coincidences = Select(candidates, kept, 1)
            /\ params.timing_window_ns = Rat(0) => loc.coincidences = <<>>

(***************************************************************************)
(* C21.  basis_selection splits the coincidences into a Bell-test subset   *)
(* and a key subset taken from disjoint positions of the coincidences; the *)
(* Bell-test subset has exactly floor(n * bell_test_fraction) pairs for n  *)
(* coincidences, and every pair of the key subset has a key-compatible     *)
(* angle combination.                                                      *)
(***************************************************************************)
C21_BasisSelectionSplits ==
    (variant = "e91" /\ Executed("basis_selection") /\ pc # "raised") =>
        LET n == Len(loc.coincidences)
            product == RMul(Rat(n), params.bell_test_fraction)
            elems(pairs) == {pairs[i] : i \in 1..Len(pairs)}
        IN  /\ \E bell \in SUBSET (1..n), key \in SUBSET (1..n) :
                   /\ bell \cap key = {}
                   /\ loc.bell_pairs = Select(loc.coincidences, bell, 1)
                   /\ loc.key_pairs = Select(loc.coincidences, key, 1)
            /\ elems(loc.bell_pairs) \cap elems(loc.key_pairs) = {}
            /\ RLe(Rat(Len(loc.bell_pairs)), product)
            /\ RLt(product, Rat(Len(loc.bell_pairs) + 1))
            /\ \A i \in 1..Len(loc.key_pairs) :
                   <<loc.key_pairs[i][1].basis_angle, loc.key_pairs[i][2].basis_angle>> \in
                       {<<0, 45>>, <<45, 90>>, <<90, 135>>, <<45, 45>>, <<90, 90>>}
            /\ self.bell_test_pairs = loc.bell_pairs
            /\ self.key_pairs = loc.key_pairs

\* two coincidences split into one Bell-test pair and one key pair
C21_Witness ==
    /\ variant = "e91"
    /\ Executed("basis_selection")
    /\ pc # "raised"
    /\ Len(loc.coincidences) = 2
    /\ Len(loc.bell_pairs) = 1
    /\ Len(loc.key_pairs) = 1

\* a coincidence outside the Bell-test sample is dropped as incompatible
C21_WitnessDropped ==
    /\ variant = "e91"
    /\ Executed("basis_selection")
    /\ pc # "raised"
    /\ Len(loc.coincidences) = 2
    /\ Len(loc.bell_pairs) = 0
    /\ Len(loc.key_pairs) = 1

(***************************************************************************)
(* C22.  No (Alice angle, Bob angle) combination is both key-compatible    *)
(* and one of the combinations whose correlations enter the CHSH sum of    *)
(* the Bell test.                                                          *)
(***************************************************************************)
C22_KeyAndBellCombinationsDisjoint ==
    variant = "e91" =>
        \A alice_angle \in AliceAngles, bob_angle \in BobAngles :
            ~(/\ IsKeyCompatible(alice_angle, bob_angle)
              /\ <<alice_angle, bob_angle>> \in CHSHCombinations)

(***************************************************************************)
(* C23.  When a pair of fidelity 1 is measured by both sides at the same   *)
(* angle (45/45 or 90/90) and neither measurement takes the detector-noise *)
(* branch, the two results are equal.  Each side's result below is one the *)
(* measurement returns without the noise branch.                           *)
(***************************************************************************)
C23_EqualAnglesGiveEqualResults ==
    (variant = "e91" /\ Executed("bob_measure")) =>
        \A i \in 1..Len(loc.pairs) :
            LET pair == loc.pairs[i]
                alice_m == loc.alice_measurements[i]
                bob_m == loc.bob_measurements[i]
            IN  (/\ alice_m # <<>>
                 /\ bob_m # <<>>
                 /\ pair.fidelity = Rat(1)
                 /\ alice_m[1].basis_angle = bob_m[1].basis_angle
                 /\ alice_m[1].basis_angle \in {45, 90}
                 /\ alice_m[1].result \in NoiselessResults(pair, alice_m[1].basis_angle)
                 /\ bob_m[1].result \in NoiselessResults(pair, bob_m[1].basis_angle))
                => alice_m[1].result = bob_m[1].result

(***************************************************************************)
(* C24.  Every detection record bob_measure produces has detected = false  *)
(* exactly when its bit is absent, and dark_count = true only when it is   *)
(* detected and the event at its position was lost in the channel; a lost  *)
(* event that is detected is always flagged as a dark count.               *)
(***************************************************************************)
C24_DetectionRecordsConsistent ==
    (variant = "bb84" /\ Executed("bob_measure")) =>
        /\ \A i \in 1..Len(loc.detections) :
               LET d == loc.detections[i]
                   lost == loc.received_photons[i] = <<>>
               IN  /\ (~d.detected) <=> (d.bit = None)
                   /\ d.dark_count => (d.detected /\ lost)
                   /\ (lost /\ d.detected) => d.dark_count
        /\ \A i \in 1..Len(self.bob_measurements) :
               LET d == self.bob_measurements[i]
               IN  /\ (~d.detected) <=> (d.bit = None)
                   /\ d.dark_count => d.detected

\* two lost events: one fires a dark count, the other detects nothing
C24_Witness ==
    /\ variant = "bb84"
    /\ Executed("bob_measure")
    /\ \E i, j \in 1..Len(loc.detections) :
           /\ loc.received_photons[i] = <<>>
           /\ loc.detections[i].dark_count
           /\ loc.detections[i].bit \in Bit
           /\ loc.received_photons[j] = <<>>
           /\ ~loc.detections[j].detected

(***************************************************************************)
(* C25.  In every run_protocol call on a BB84Protocol instance, first or   *)
(* repeated, the sifted key is no longer than the number of pulses that    *)
(* call prepared, and the efficiency a successful call reports is at most  *)
(* 1.                                                                      *)
(***************************************************************************)
C25_SiftedKeyFromThisRunOnly ==
    variant = "bb84" =>
        /\ Executed("basis_reconciliation") => Len(loc.alice_sifted) <= Len(loc.photons)
        /\ (pc = "done" /\ "efficiency" \in result.keys) => RLe(result.efficiency, Rat(1))

(***************************************************************************)
(* C26.  Between run_protocol calls on one instance (either variant), the  *)
(* instance's final_key is non-empty only if the most recent call returned *)
(* success = true.                                                         *)
(***************************************************************************)
C26_FinalKeyOnlyAfterSuccess ==
    (pc \in {"idle", "done", "raised"} /\ self.final_key # <<>>) =>
        (result.state = "returned" /\ "success" \in result.keys /\ result.success)

(***************************************************************************)
(* C27.  The QBER that BB84 security_analysis reports, and compares with   *)
(* qber_threshold, is the value the most recent error_estimation call      *)
(* returned, also when that call returned 1.0 early for empty or           *)
(* unequal-length inputs.                                                  *)
(***************************************************************************)
C27_AnalysisUsesEstimatedQber ==
    (variant = "bb84" /\ Executed("error_estimation") /\ Executed("security_analysis")) =>
        /\ loc.security_metrics.qber = loc.qber
        /\ loc.security_metrics.secure <=> RLt(loc.qber, params.qber_threshold)

(***************************************************************************)
(* C28.  Every run_protocol result with success = true reports             *)
(* final_key_bits >= 1 (both variants; a successful run always has a       *)
(* sifted key of length >= 1).                                             *)
(***************************************************************************)
C28_SuccessHasKeyBits ==
    (pc = "done" /\ result.state = "returned" /\ result.success) =>
        /\ SiftedLen >= 1
        /\ "final_key_bits" \in result.keys
        /\ result.final_key_bits >= 1

(***************************************************************************)
(* C29.  When the Bell-test subset holds fewer than 4 pairs, bell_test     *)
(* returns S = 0; if moreover bell_violation_threshold >= 0, the run never *)
(* reaches its secure branch: a verdict, once computed, is secure = false, *)
(* and the run ends by returning success = false, whatever the QBER of the *)
(* key subset.                                                             *)
(***************************************************************************)
C29_SmallBellSampleNeverSecure ==
    (variant = "e91" /\ Executed("bell_test") /\ Len(loc.bell_pairs) < 4) =>
        /\ loc.bell_parameter = Rat(0)
        /\ RLe(Rat(0), params.bell_violation_threshold) =>
               /\ pc # "post_processing"
               /\ VerdictReached => ~loc.security_metrics.secure
               /\ Ended => (result.state = "returned" /\ ~result.success)

\* a Bell sample of one pair and an error-free key pair under a threshold of 0:
\* the run fails its security check
C29_Witness ==
    /\ variant = "e91"
    /\ Executed("bell_test")
    /\ Len(loc.bell_pairs) = 1
    /\ params.bell_violation_threshold = Rat(0)
    /\ VerdictReached
    /\ loc.qber = Rat(0)
    /\ ~loc.security_metrics.secure
    /\ ReturnedFailure

(***************************************************************************)
(* C30.  Every prepared pulse has is_decoy = true if and only if its       *)
(* intensity is below 1.0, whatever weak_intensity and decoy_intensity are *)
(* configured, and no position of a pulse prepared with is_decoy = true is *)
(* retained by sifting (positions taken on the first run of an instance).  *)
(***************************************************************************)
C30_DecoyIffBelowSignalIntensity ==
    (variant = "bb84" /\ Executed("alice_prepare")) =>
        /\ \A i \in 1..Len(loc.photons) :
               loc.photons[i].is_decoy <=> RLt(loc.photons[i].intensity, Rat(1))
        /\ (runs = 1 /\ Executed("basis_reconciliation")) =>
               \A i \in BB84Sifted(self) : ~loc.photons[i].is_decoy

=============================================================================
